---- MODULE Spec2Model ----
(***************************************************************************)
(* Model of RAGChatBot (src/ml/rag_bot.py): the orchestrator object, the   *)
(* FAISS store objects it creates, the index file at save_path and the     *)
(* conversation chain with its buffer memory.                              *)
(*                                                                         *)
(* Python strings that the code inspects (paths, urls) are sequences of    *)
(* one-character strings.  An optional attribute is the empty sequence     *)
(* (unset / None) or a one-element sequence holding its value.             *)
(***************************************************************************)
EXTENDS Integers, Sequences, FiniteSets, TLC

VARIABLES
  phase,               \* "new": no orchestrator object; "live": __init__ returned
  data_sources,        \* self.data_sources
  embeddings,          \* self.embeddings (the model id of the embedder object)
  llm,                 \* self.llm
  system_prompt,       \* self.system_prompt ("" is a falsy prompt: None or '')
  custom_prompt,       \* self.custom_prompt (unset until a prompt is given)
  docs,                \* self.docs (unset until a load+split is stored)
  vector_store,        \* self.vector_store (unset, or the FAISS object it names)
  disk,                \* what is stored at save_path (absent, or index entries)
  conversation_chain,  \* self.conversation_chain
  chat_memory,         \* self.chat_memory (the chain's memory object)
  lastCall,            \* the last call made and how it returned
  turns,               \* history: the successful chat calls of this object, in order
  hist,                \* history: built without sources, and what succeeded on it since
  load_in,             \* argument of a stand-alone _load_data call
  load_out             \* its outcome

vars == <<phase, data_sources, embeddings, llm, system_prompt, custom_prompt,
          docs, vector_store, disk, conversation_chain, chat_memory, lastCall,
          turns, hist, load_in, load_out>>

objvars == <<phase, data_sources, embeddings, llm, system_prompt, custom_prompt,
             docs, vector_store, disk, conversation_chain, chat_memory, turns, hist>>

loadvars == <<load_in, load_out>>

(***************************************************************************)
(* Bounds                                                                  *)
(***************************************************************************)
MaxSources == 2     \* longest stored source list explored
MaxIndex == 3       \* most entries explored in one store object
MaxArg == 2         \* longest list passed to __init__ / add_sources
MaxChatArg == 1     \* longest list passed to __init__ / add_sources around chats
MaxChats == 2       \* successful chat calls explored per orchestrator
MaxLoad == 2        \* longest list passed to a stand-alone _load_data

None == <<>>
Some(x) == <<x>>
Val(o) == o[1]

(***************************************************************************)
(* Strings                                                                 *)
(***************************************************************************)
Lower(c) ==
  CASE c = "T" -> "t"
    [] c = "X" -> "x"
    [] c = "P" -> "p"
    [] c = "H" -> "h"
    [] OTHER -> c

LowerStrNot(s) == s

LowerStr(s) == [i \in DOMAIN s |-> Lower(s[i])]

EndsWith(s, suffix) ==
  /\ Len(s) >= Len(suffix)
  /\ SubSeq(s, Len(s) - Len(suffix) + 1, Len(s)) = suffix

StartsWith(s, prefix) ==
  /\ Len(s) >= Len(prefix)
  /\ SubSeq(s, 1, Len(prefix)) = prefix

(***************************************************************************)
(* Source descriptors: the (mode, source) tuples.  source is a string for  *)
(* 'file' and 'url' (path) and a dict for 'confluence' (fields: its keys). *)
(***************************************************************************)
File(p) == [mode |-> "file", path |-> p, fields |-> {}]
Url(p) == [mode |-> "url", path |-> p, fields |-> {}]
Confluence(ks) == [mode |-> "confluence", path |-> <<>>, fields |-> ks]
Other(m, p) == [mode |-> m, path |-> p, fields |-> {}]

ConfluenceKeys == {"url", "username", "api_key", "space_key", "limit"}


(***************************************************************************)
(* _load_data, lines 128-169: the loader one descriptor is routed to, or   *)
(* the exception its branch raises.                                        *)
(***************************************************************************)
Routed(name) == [error |-> "ok", loader |-> name]
Raised(e) == [error |-> e, loader |-> "none"]

DispatchFile(source) ==
  LET low == LowerStr(source) IN
  IF EndsWith(low, <<".", "t", "x", "t">>) THEN Routed("TextLoader")
  ELSE IF EndsWith(low, <<".", "p", "d", "f">>) THEN Routed("PyPDFLoader")
  ELSE IF EndsWith(low, <<".", "c", "s", "v">>) THEN Routed("CSVLoader")
  ELSE IF \/ EndsWith(low, <<".", "h", "t", "m", "l">>)
          \/ EndsWith(low, <<".", "h", "t", "m">>) THEN Routed("BSHTMLLoader")
  ELSE IF EndsWith(low, <<".", "m", "d">>) THEN Routed("UnstructuredMarkdownLoader")
  ELSE IF EndsWith(low, <<".", "x", "m", "l">>) THEN Routed("UnstructuredXMLLoader")
  ELSE IF EndsWith(low, <<".", "j", "s", "o", "n">>) THEN Routed("JSONLoader")
  ELSE IF \/ EndsWith(low, <<".", "x", "l", "s">>)
          \/ EndsWith(low, <<".", "x", "l", "s", "x">>) THEN Routed("UnstructuredExcelLoader")
  ELSE Raised("ValueError: Unsupported file format")

DispatchUrl(source) ==
  IF \/ StartsWith(source, <<"h", "t", "t", "p", ":", "/", "/">>)
     \/ StartsWith(source, <<"h", "t", "t", "p", "s", ":", "/", "/">>)
  THEN Routed("WebBaseLoader")
  ELSE Raised("ValueError: Unsupported URL format")

DispatchConfluenceLax(fields) == Routed("ConfluenceLoader")

\* source['url'], source['username'], ...: a missing key raises KeyError
DispatchConfluence(fields) ==
  IF ConfluenceKeys \subseteq fields THEN Routed("ConfluenceLoader")
  ELSE Raised("KeyError")

Dispatch(d) ==
  IF d.mode = "file" THEN DispatchFile(d.path)
  ELSE IF d.mode = "url" THEN DispatchUrl(d.path)
  ELSE IF d.mode = "confluence" THEN DispatchConfluence(d.fields)
  ELSE Raised("ValueError: Unsupported mode")

IsUnsupportedFormat(e) ==
  e \in {"ValueError: Unsupported file format",
         "ValueError: Unsupported URL format",
         "ValueError: Unsupported mode"}

(***************************************************************************)
(* The loaders are external.  A loader returns the documents of its source *)
(* (here one document naming it) or fails; down is the set of sources      *)
(* whose loader fails during the call at hand.                             *)
(***************************************************************************)
Document(d, loader) == [origin |-> d, by |-> loader]

\* the for loop of lines 128-169: the loaders list, or the first exception
RECURSIVE BuildLoaders(_, _)
BuildLoaders(sources, loaders) ==
  IF sources = <<>> THEN [error |-> "ok", loaders |-> loaders]
  ELSE LET r == Dispatch(Head(sources)) IN
       IF r.error # "ok" THEN [error |-> r.error, loaders |-> loaders]
       ELSE BuildLoaders(Tail(sources),
                         Append(loaders, [source |-> Head(sources), loader |-> r.loader]))

\* MergedDataLoader(loaders).load(): each loader in order, the first failure aborts
RECURSIVE MergedLoad(_, _, _)
MergedLoad(loaders, down, documents) ==
  IF loaders = <<>> THEN [error |-> "ok", documents |-> documents, invoked |-> Len(documents)]
  ELSE LET l == Head(loaders) IN
       IF l.source \in down
       THEN [error |-> "LoaderError", documents |-> <<>>, invoked |-> Len(documents) + 1]
       ELSE MergedLoad(Tail(loaders), down, Append(documents, Document(l.source, l.loader)))

\* _load_data(sources); invoked counts the loaders whose load was started
LoadData(sources, down) ==
  LET b == BuildLoaders(sources, <<>>) IN
  IF b.error # "ok" THEN [error |-> b.error, documents |-> <<>>, invoked |-> 0]
  ELSE MergedLoad(b.loaders, down, <<>>)

(***************************************************************************)
(* _split_data: the splitter is external and deterministic; a document of  *)
(* a file is cut into two chunks here, any other document into one.        *)
(***************************************************************************)
ChunkCount(doc) == IF doc.origin.mode = "file" THEN 2 ELSE 1

SplitDocument(doc) == [n \in 1..ChunkCount(doc) |-> [origin |-> doc.origin, part |-> n]]

RECURSIVE SplitData(_)
SplitData(documents) ==
  IF documents = <<>> THEN <<>>
  ELSE SplitDocument(Head(documents)) \o SplitData(Tail(documents))

(***************************************************************************)
(* FAISS store objects.  An entry is a chunk with the vector computed for  *)
(* it, named by the embedding model that computed it.  A store object also *)
(* keeps the embedding function it was created with.                       *)
(***************************************************************************)
Embed(chunks, model) == [i \in DOMAIN chunks |-> [chunk |-> chunks[i], model |-> model]]

FromDocumentsFirst(chunks, model) ==
  [entries |-> Embed(SubSeq(chunks, 1, 1), model), embedding |-> model]

\* FAISS.from_documents(documents, embedding)
FromDocuments(chunks, model) == [entries |-> Embed(chunks, model), embedding |-> model]

\* FAISS.load_local(save_path, embeddings): the stored entries, the given function
LoadLocal(stored, model) == [entries |-> stored, embedding |-> model]

AddDocumentsInstead(store, chunks) ==
  [store EXCEPT !.entries = Embed(chunks, store.embedding)]

\* store.add_documents(new_docs): embedded with the store's own function
AddDocuments(store, chunks) ==
  [store EXCEPT !.entries = store.entries \o Embed(chunks, store.embedding)]

SaveLocalSkipped(store, stored) == stored

\* store.save_local(save_path): what save_path holds afterwards
SaveLocal(store, stored) == Some(store.entries)

Questions == {"qa"}

\* distance of an entry to the embedded query: external; near only for a chunk
\* about the question whose vector lives in the query's embedding space
Distance(store, q, e) ==
  IF /\ e.model = store.embedding
     /\ \/ q = "qa" /\ e.chunk.origin.mode = "file"
        \/ q = "qb" /\ e.chunk.origin.mode = "url"
  THEN 0 ELSE 1

FirstK(s, k) == SubSeq(s, 1, IF Len(s) < k THEN Len(s) ELSE k)

\* retriever.get_relevant_documents: the k nearest, ties in insertion order
Search(store, q, k) ==
  LET Near(e) == Distance(store, q, e) = 0
      Far(e) == Distance(store, q, e) # 0
  IN FirstK(SelectSeq(store.entries, Near) \o SelectSeq(store.entries, Far), k)

K_RETRIEVER == 2

Models == {"m1", "m2"}
DefaultEmbeddings == "m1"     \* the default of the embeddings_model parameter

(***************************************************************************)
(* Inputs                                                                  *)
(***************************************************************************)
SrcA == File(<<"a", ".", "t", "x", "t">>)
SrcB == Url(<<"h", "t", "t", "p", ":", "/", "/", "b">>)
SrcX == File(<<"x", ".", "e", "x", "e">>)

GoodSources == {SrcA, SrcB}
Flaky == {SrcB}          \* sources whose loader may fail (network)

SeqsUpTo(S, n) == UNION {[1..m -> S] : m \in 0..n}

ArgLists == SeqsUpTo(GoodSources, MaxArg) \cup {<<SrcX>>, <<SrcA, SrcX>>}
ChatLists == SeqsUpTo(GoodSources, MaxChatArg) \cup {<<SrcX>>}

\* created: the branch of _create_vector_store the call went through, if any
NoCall ==
  [op |-> "none", result |-> "ok", removed |-> {}, retrieved |-> <<>>, created |-> "none"]

Call(op, result) == [NoCall EXCEPT !.op = op, !.result = result]

(***************************************************************************)
(* Init: no orchestrator yet.  save_path holds nothing, or the index that  *)
(* an earlier orchestrator built there from other sources.                 *)
(***************************************************************************)
Blank ==
  /\ data_sources = <<>>
  /\ embeddings = "m1"
  /\ llm = "l1"
  /\ system_prompt = ""
  /\ custom_prompt = None
  /\ docs = None
  /\ vector_store = None
  /\ conversation_chain = None
  /\ chat_memory = None
  /\ turns = <<>>
  /\ hist = [empty_born |-> FALSE, added |-> FALSE, retriever_changed |-> FALSE]

PriorIndexes ==
  {None,
   Some(FromDocuments(SplitData(LoadData(<<SrcB>>, {}).documents), DefaultEmbeddings).entries)}

Init ==
  /\ phase = "new"
  /\ Blank
  /\ disk \in PriorIndexes
  /\ lastCall = NoCall
  /\ load_in = <<>>
  /\ load_out = None

(***************************************************************************)
(* _create_vector_store, lines 200-211, for the given self.embeddings and  *)
(* self.docs: the store made, what save_path then holds, or the exception. *)
(***************************************************************************)
CreateVectorStore(emb, chunks, stored) ==
  IF stored # None
  THEN [error |-> "ok", store |-> Some(LoadLocal(Val(stored), emb)), disk |-> stored,
        branch |-> "load"]
  ELSE IF chunks = None
  THEN [error |-> "AttributeError", store |-> None, disk |-> stored, branch |-> "build"]
  ELSE IF Val(chunks) = <<>>
  THEN [error |-> "IndexError", store |-> None, disk |-> stored, branch |-> "build"]
  ELSE LET vs == FromDocuments(Val(chunks), emb) IN
       [error |-> "ok", store |-> Some(vs), disk |-> SaveLocal(vs, stored),
        branch |-> "build"]

(***************************************************************************)
(* _initialize_conversation_chain, lines 95-117: the chain made from the   *)
(* current store object, llm and prompt.  live says that the retriever's   *)
(* store is the object self.vector_store names; store is its content.      *)
(***************************************************************************)
\* the f-string template of lines 56-70 and 252-266, and the chain's own default
Template(sp) == <<"SYSTEM PROMPT", sp, "context", "question", "chat_history">>
DefaultPrompt == <<"default">>

InitChainDefault(vs, model, sp, cp) ==
  [live |-> TRUE, store |-> vs, llm |-> model, prompt |-> DefaultPrompt]

InitChain(vs, model, sp, cp) ==
  [live |-> TRUE,
   store |-> vs,
   llm |-> model,
   prompt |-> IF sp # "" THEN Val(cp) ELSE DefaultPrompt]

(***************************************************************************)
(* __init__, lines 47-93.  An exception leaves no object behind.           *)
(***************************************************************************)
Construct(sources, emb, model, sp, down) ==
  /\ phase = "new"
  /\ LET cp == IF sp # "" THEN Some(Template(sp)) ELSE None
         r == LoadData(sources, down)
         chunks == Some(SplitData(r.documents))
         c == CreateVectorStore(emb, chunks, disk)
     IN
     IF sources = <<>>
     THEN /\ phase' = "live"
          /\ data_sources' = sources
          /\ embeddings' = emb
          /\ llm' = model
          /\ system_prompt' = sp
          /\ custom_prompt' = cp
          /\ hist' = [hist EXCEPT !.empty_born = TRUE]
          /\ lastCall' = Call("__init__", "ok")
          /\ UNCHANGED <<docs, vector_store, disk, conversation_chain, chat_memory, turns>>
     ELSE IF r.error # "ok"
     THEN /\ lastCall' = Call("__init__", r.error)
          /\ UNCHANGED objvars
     ELSE IF c.error # "ok"
     THEN /\ lastCall' = [Call("__init__", c.error) EXCEPT !.created = c.branch]
          /\ UNCHANGED objvars
     ELSE /\ phase' = "live"
          /\ data_sources' = sources
          /\ embeddings' = emb
          /\ llm' = model
          /\ system_prompt' = sp
          /\ custom_prompt' = cp
          /\ docs' = chunks
          /\ vector_store' = c.store
          /\ disk' = c.disk
          /\ conversation_chain' = Some(InitChain(Val(c.store), model, sp, cp))
          /\ chat_memory' = Some(<<>>)
          /\ lastCall' = [Call("__init__", "ok") EXCEPT !.created = c.branch]
          /\ UNCHANGED <<turns, hist>>
  /\ UNCHANGED loadvars

(***************************************************************************)
(* chat, lines 119-124.  The chain retrieves, generates and then saves the *)
(* turn (save_context, lines 19-30); fails: retrieval or generation raised.*)
(***************************************************************************)
SaveContext(memory, question, answer) ==
  Append(memory, [human |-> question, ai |-> answer])

\* the generation backend is external: an answer is told from the others by the
\* question it answers and the turns that were in the prompt
Generate(model, prompt, question, context, history) ==
  [to |-> question, after |-> Len(history)]

ChatUnguarded(chain) == "TypeError"

\* lines 120-121: what chat raises when there is no chain
ChatNotReady(chain) == "ValueError: Initialize chatbot with documents first"

Chat(query, fails) ==
  /\ phase = "live"
  /\ IF conversation_chain = None
     THEN /\ lastCall' = Call("chat", ChatNotReady(conversation_chain))
          /\ UNCHANGED objvars
     ELSE IF fails
     THEN /\ lastCall' = Call("chat", "BackendError")
          /\ UNCHANGED objvars
     ELSE LET chain == Val(conversation_chain)
              found == Search(chain.store, query, K_RETRIEVER)
              answer == Generate(chain.llm, chain.prompt, query, found, Val(chat_memory))
          IN /\ chat_memory' = Some(SaveContext(Val(chat_memory), query, answer))
             /\ turns' = Append(turns, [human |-> query, ai |-> answer])
             /\ lastCall' = [Call("chat", "ok") EXCEPT !.retrieved = found]
             /\ UNCHANGED <<phase, data_sources, embeddings, llm, system_prompt,
                            custom_prompt, docs, vector_store, disk, conversation_chain,
                            hist>>
  /\ UNCHANGED loadvars

(***************************************************************************)
(* add_sources, lines 213-221.                                             *)
(***************************************************************************)
AddSourcesRaisesLate(new_sources, error) ==
  /\ lastCall' = Call("add_sources", error)
  /\ data_sources' = data_sources \o new_sources
  /\ UNCHANGED <<phase, embeddings, llm, system_prompt, custom_prompt, docs, vector_store,
                 disk, conversation_chain, chat_memory, turns, hist>>

\* an exception of line 214 or 217 leaves add_sources before anything is assigned
AddSourcesRaises(new_sources, error) ==
  /\ lastCall' = Call("add_sources", error)
  /\ UNCHANGED objvars

AddSources(new_sources, down) ==
  /\ phase = "live"
  /\ new_sources # <<>>
  /\ Len(data_sources) + Len(new_sources) <= MaxSources
  /\ LET r == LoadData(new_sources, down)
         new_docs == SplitData(r.documents)
     IN
     IF r.error # "ok"
     THEN AddSourcesRaises(new_sources, r.error)
     ELSE IF vector_store = None
     THEN AddSourcesRaises(new_sources, "AttributeError")
     ELSE LET vs == AddDocuments(Val(vector_store), new_docs) IN
          /\ Len(vs.entries) <= MaxIndex
          /\ vector_store' = Some(vs)
          /\ conversation_chain' =
               IF conversation_chain # None /\ Val(conversation_chain).live
               THEN Some([Val(conversation_chain) EXCEPT !.store = vs])
               ELSE conversation_chain
          /\ disk' = SaveLocal(vs, disk)
          /\ data_sources' = data_sources \o new_sources
          /\ hist' = [hist EXCEPT !.added = hist.empty_born]
          /\ lastCall' = Call("add_sources", "ok")
          /\ UNCHANGED <<phase, embeddings, llm, system_prompt, custom_prompt, docs,
                         chat_memory, turns>>
  /\ UNCHANGED loadvars

(***************************************************************************)
(* remove_sources, lines 223-233.                                          *)
(***************************************************************************)
RemainingAll(sources, sources_to_remove) == sources

\* the list comprehension of lines 224-226
Remaining(sources, sources_to_remove) ==
  LET Keep(d) == d \notin sources_to_remove IN SelectSeq(sources, Keep)

RemoveSources(sources_to_remove, down) ==
  /\ phase = "live"
  /\ LET rest == Remaining(data_sources, sources_to_remove)
         r == LoadData(rest, down)
         chunks == SplitData(r.documents)
         vs == FromDocuments(chunks, embeddings)
     IN
     /\ data_sources' = rest
     /\ IF r.error # "ok"
        THEN /\ lastCall' = [Call("remove_sources", r.error) EXCEPT !.removed = sources_to_remove]
             /\ UNCHANGED <<docs, vector_store, disk, conversation_chain>>
        ELSE IF chunks = <<>>
        THEN /\ docs' = Some(chunks)
             /\ lastCall' = [Call("remove_sources", "IndexError") EXCEPT !.removed = sources_to_remove]
             /\ UNCHANGED <<vector_store, disk, conversation_chain>>
        ELSE /\ docs' = Some(chunks)
             /\ vector_store' = Some(vs)
             /\ disk' = SaveLocal(vs, disk)
             /\ conversation_chain' =
                  IF conversation_chain # None
                  THEN Some([Val(conversation_chain) EXCEPT !.live = FALSE])
                  ELSE conversation_chain
             /\ lastCall' = [Call("remove_sources", "ok") EXCEPT !.removed = sources_to_remove]
  /\ UNCHANGED <<phase, embeddings, llm, system_prompt, custom_prompt, chat_memory, turns,
                 hist>>
  /\ UNCHANGED loadvars

(***************************************************************************)
(* change_model, lines 235-242.                                            *)
(***************************************************************************)
ChangeModelUnguarded(new_model_name) ==
  /\ phase = "live"
  /\ llm' = new_model_name
  /\ conversation_chain' =
       Some(InitChain(IF vector_store = None
                      THEN [entries |-> <<>>, embedding |-> embeddings]
                      ELSE Val(vector_store),
                      new_model_name, system_prompt, custom_prompt))
  /\ chat_memory' = Some(<<>>)
  /\ lastCall' = Call("change_model", "ok")
  /\ UNCHANGED <<phase, data_sources, embeddings, system_prompt, custom_prompt, docs,
                 vector_store, disk, turns, hist>>
  /\ UNCHANGED loadvars

ChangeModel(new_model_name) ==
  /\ phase = "live"
  /\ llm' = new_model_name
  /\ IF vector_store = None
     THEN /\ lastCall' = Call("change_model", "AttributeError")
          /\ UNCHANGED <<conversation_chain, chat_memory>>
     ELSE /\ conversation_chain' =
               Some(InitChain(Val(vector_store), new_model_name, system_prompt, custom_prompt))
          /\ chat_memory' = Some(<<>>)
          /\ lastCall' = Call("change_model", "ok")
  /\ UNCHANGED <<phase, data_sources, embeddings, system_prompt, custom_prompt, docs,
                 vector_store, disk, turns, hist>>
  /\ UNCHANGED loadvars

(***************************************************************************)
(* change_retriever, lines 244-248.                                        *)
(***************************************************************************)
ChangeRetriever(new_embeddings_model) ==
  /\ phase = "live"
  /\ embeddings' = new_embeddings_model
  /\ LET c == CreateVectorStore(new_embeddings_model, docs, disk) IN
     IF c.error # "ok"
     THEN /\ lastCall' = [Call("change_retriever", c.error) EXCEPT !.created = c.branch]
          /\ UNCHANGED <<vector_store, disk, conversation_chain, chat_memory, hist>>
     ELSE /\ vector_store' = c.store
          /\ disk' = c.disk
          /\ hist' = [hist EXCEPT !.retriever_changed = hist.empty_born]
          /\ conversation_chain' =
               Some(InitChain(Val(c.store), llm, system_prompt, custom_prompt))
          /\ chat_memory' = Some(<<>>)
          /\ lastCall' = [Call("change_retriever", "ok") EXCEPT !.created = c.branch]
  /\ UNCHANGED <<phase, data_sources, llm, system_prompt, custom_prompt, docs, turns>>
  /\ UNCHANGED loadvars

(***************************************************************************)
(* change_prompt, lines 250-274.                                           *)
(***************************************************************************)
ChangePrompt(new_system_prompt) ==
  /\ phase = "live"
  /\ system_prompt' = new_system_prompt
  /\ custom_prompt' = Some(Template(new_system_prompt))
  /\ IF vector_store = None
     THEN /\ lastCall' = Call("change_prompt", "AttributeError")
          /\ UNCHANGED <<conversation_chain, chat_memory>>
     ELSE /\ conversation_chain' =
               Some(InitChain(Val(vector_store), llm, new_system_prompt,
                              Some(Template(new_system_prompt))))
          /\ chat_memory' = Some(<<>>)
          /\ lastCall' = Call("change_prompt", "ok")
  /\ UNCHANGED <<phase, data_sources, embeddings, llm, docs, vector_store, disk, turns,
                 hist>>
  /\ UNCHANGED loadvars

(***************************************************************************)
(* One call of the program, its arguments drawn from the given sets; chats *)
(* caps the successful chat calls followed per orchestrator.               *)
(***************************************************************************)
NextOver(lists, removals, models, llms, prompts, questions, chats) ==
  \/ \E sources \in lists, down \in SUBSET Flaky :
        Construct(sources, DefaultEmbeddings, "l1", "", down)
  \/ \E query \in questions, fails \in BOOLEAN :
        /\ fails \/ conversation_chain = None \/ Len(turns) < chats
        /\ Chat(query, fails)
  \/ \E new_sources \in lists, down \in SUBSET Flaky : AddSources(new_sources, down)
  \/ \E sources_to_remove \in removals, down \in SUBSET Flaky :
        RemoveSources(sources_to_remove, down)
  \/ \E new_model_name \in llms : ChangeModel(new_model_name)
  \/ \E new_embeddings_model \in models : ChangeRetriever(new_embeddings_model)
  \/ \E new_system_prompt \in prompts : ChangePrompt(new_system_prompt)

(***************************************************************************)
(* The calls that build or change the index, over every source list.       *)
(***************************************************************************)
Next ==
  \/ \E sources \in ArgLists, down \in SUBSET Flaky :
        Construct(sources, DefaultEmbeddings, "l1", "", down)
  \/ \E new_sources \in ArgLists, down \in SUBSET Flaky : AddSources(new_sources, down)
  \/ \E sources_to_remove \in SUBSET GoodSources, down \in SUBSET Flaky :
        RemoveSources(sources_to_remove, down)
  \/ \E new_embeddings_model \in Models : ChangeRetriever(new_embeddings_model)

Spec == Init /\ [][Next]_vars

\* every call, around the conversation, over a few source lists
NextChat == NextOver(ChatLists, {{SrcA}}, {"m2"}, {"l2"}, {"", "p1"}, Questions, MaxChats)

SpecChat == Init /\ [][NextChat]_vars


(***************************************************************************)
(* _load_data on its own: every short list over a wider set of descriptors.*)
(***************************************************************************)
P(name, ext) == <<name, ".">> \o ext

LoadFiles ==
  {File(P("a", e)) : e \in {<<"t","x","t">>, <<"T","X","T">>, <<"p","d","f">>,
                            <<"c","s","v">>, <<"h","t","m","l">>, <<"h","t","m">>,
                            <<"H","t","m">>, <<"m","d">>, <<"x","m","l">>,
                            <<"j","s","o","n">>, <<"x","l","s">>, <<"x","l","s","x">>,
                            <<"e","x","e">>, <<"t","x","t",".","b","a","k">>}}
  \cup {File(<<"t","x","t">>), File(<<".","p","d","f">>)}

LoadUrls ==
  {Url(<<"h","t","t","p",":","/","/","b">>), Url(<<"h","t","t","p","s",":","/","/","b">>),
   Url(<<"H","T","T","P",":","/","/","b">>),
   Url(<<"f","t","p",":","/","/","b">>), Url(<<"h","t","t","p",":","b">>)}

LoadOthers ==
  {Confluence(ConfluenceKeys), Confluence(ConfluenceKeys \ {"api_key"}), Confluence({}),
   Other("dir", <<"a",".","t","x","t">>)}

LoadUniverse == LoadFiles \cup LoadUrls \cup LoadOthers

LoadFlaky == {Url(<<"h","t","t","p",":","/","/","b">>), File(<<"a",".","p","d","f">>)}

InitLoad ==
  /\ phase = "new"
  /\ Blank
  /\ disk = None
  /\ lastCall = NoCall
  /\ load_in \in SeqsUpTo(LoadUniverse, MaxLoad)
  /\ load_out = None

ApplyLoad(down) ==
  /\ load_out = None
  /\ load_out' = Some(LoadData(load_in, down))
  /\ UNCHANGED load_in
  /\ UNCHANGED objvars
  /\ UNCHANGED lastCall

NextLoad == \E down \in SUBSET LoadFlaky : ApplyLoad(down)

SpecLoad == InitLoad /\ [][NextLoad]_vars

(***************************************************************************)
(* Vocabulary of the properties                                            *)
(***************************************************************************)
Entries(vs) == Val(vs).entries

ChunksIn(entries) == [i \in DOMAIN entries |-> entries[i].chunk]

\* the chunks derivable from a source list: every source loaded and split
Derivable(sources) == SplitData(LoadData(sources, {}).documents)

\* S minus R, in the order of S
RECURSIVE Minus(_, _)
Minus(S, R) ==
  IF S = <<>> THEN <<>>
  ELSE IF Head(S) \in R THEN Minus(Tail(S), R)
  ELSE <<Head(S)>> \o Minus(Tail(S), R)

Range(f) == {f[i] : i \in DOMAIN f}

ModelsIn(entries) == {entries[i].model : i \in DOMAIN entries}

Returned(op) == lastCall.op = op /\ lastCall.result = "ok"
Returns(op) == lastCall'.op = op /\ lastCall'.result = "ok"

NotReady == "ValueError: Initialize chatbot with documents first"

LoadFailed(result) == IsUnsupportedFormat(result) \/ result \in {"KeyError", "LoaderError"}

(***************************************************************************)
(* C1: after remove_sources(R) returns on a stored list S with an index,   *)
(* the index holds exactly the chunks derivable from S minus R, in order,  *)
(* and no chunk of a source in R.                                          *)
(***************************************************************************)
C1_RemoveExact ==
  [][(vector_store # None /\ Returns("remove_sources")) =>
       LET R == lastCall'.removed IN
       /\ ChunksIn(Entries(vector_store')) = Derivable(Minus(data_sources, R))
       /\ \A e \in Range(Entries(vector_store')) : e.chunk.origin \notin R]_vars

\* a removal returned; the store it replaced, still held by the chain, has chunks
\* of a removed source and the new store has none (it is not empty)
C1_Witness ==
  /\ Returned("remove_sources")
  /\ conversation_chain # None
  /\ \E e \in Range(Val(conversation_chain).store.entries) : e.chunk.origin \in lastCall.removed
  /\ Entries(vector_store) # <<>>
  /\ \A e \in Range(Entries(vector_store)) : e.chunk.origin \notin lastCall.removed

(***************************************************************************)
(* C2: after change_retriever(m) returns on an orchestrator that held an   *)
(* index, every vector in the index was computed with m.                   *)
(***************************************************************************)
C2_ChangeRetrieverReembeds ==
  [][(vector_store # None /\ Returns("change_retriever")) =>
       ModelsIn(Entries(vector_store')) \subseteq {embeddings'}]_vars

(***************************************************************************)
(* C3: the index never holds vectors of two embedding models at once.      *)
(***************************************************************************)
C3_NeverMixed ==
  vector_store # None => Cardinality(ModelsIn(Entries(vector_store))) <= 1

(***************************************************************************)
(* C4: the memory holds exactly the successful chat calls made on the      *)
(* orchestrator, in call order, whatever was called in between.            *)
(***************************************************************************)
C4_MemoryIsTheLog ==
  (phase = "live" /\ turns # <<>>) => (chat_memory # None /\ Val(chat_memory) = turns)

(***************************************************************************)
(* C5: add_sources returning on a Loaded index keeps every entry, appends  *)
(* exactly the chunks of the new sources, and appends the new sources to   *)
(* the stored list.                                                        *)
(***************************************************************************)
RECURSIVE ChunkTotal(_)
ChunkTotal(sources) ==
  IF sources = <<>> THEN 0
  ELSE (IF Head(sources).mode = "file" THEN 2 ELSE 1) + ChunkTotal(Tail(sources))

C5_AddIncremental ==
  [][(vector_store # None /\ Returns("add_sources")) =>
       LET old == Entries(vector_store)
           now == Entries(vector_store')
           new == SubSeq(data_sources', Len(data_sources) + 1, Len(data_sources'))
       IN /\ Len(data_sources') > Len(data_sources)
          /\ data_sources' = data_sources \o new
          /\ Len(now) = Len(old) + ChunkTotal(new)
          /\ SubSeq(now, 1, Len(old)) = old
          /\ ChunksIn(SubSeq(now, Len(old) + 1, Len(now))) = Derivable(new)]_vars

\* an add returned on an index that already had entries
C5_Witness ==
  /\ Returned("add_sources")
  /\ Len(data_sources) >= 2
  /\ Len(Entries(vector_store)) > ChunkTotal(<<data_sources[Len(data_sources)]>>)

(***************************************************************************)
(* C6 as claimed: chat on an orchestrator built without sources, to which  *)
(* none was added since, raises Not-Ready and changes nothing.             *)
(***************************************************************************)
ChatStep == lastCall'.op = "chat"

C7_AddMakesReady ==
  [][/\ (phase = "live" /\ hist.empty_born /\ lastCall'.op = "add_sources"
           /\ ~LoadFailed(lastCall'.result))
        => lastCall'.result = "ok"
     /\ (phase = "live" /\ hist.empty_born /\ hist.added /\ ChatStep)
        => lastCall'.result # NotReady]_vars

(***************************************************************************)
(* C8: when construction, add_sources, remove_sources or change_retriever  *)
(* has returned with an index, save_path holds exactly the entries of the  *)
(* index in memory.                                                        *)
(***************************************************************************)
C8_PersistedIsInMemory ==
  (/\ lastCall.op \in {"__init__", "add_sources", "remove_sources", "change_retriever"}
   /\ lastCall.result = "ok"
   /\ vector_store # None)
  => disk = Some(Entries(vector_store))

\* an add returned and save_path holds the index it extended
C8_Witness ==
  /\ Returned("add_sources")
  /\ Len(Entries(vector_store)) >= 2
  /\ disk = Some(Entries(vector_store))

(***************************************************************************)
(* Loader dispatch as the specification words it.                          *)
(***************************************************************************)
SupportedExtensions ==
  {<<"t","x","t">>, <<"p","d","f">>, <<"c","s","v">>, <<"h","t","m","l">>, <<"h","t","m">>,
   <<"m","d">>, <<"x","m","l">>, <<"j","s","o","n">>, <<"x","l","s">>, <<"x","l","s","x">>}

Dots(path) == {i \in DOMAIN path : path[i] = "."}

\* the text after the last dot, lowercased; no dot: no extension
HasSupportedExtension(path) ==
  \E i \in Dots(path) :
    /\ \A j \in Dots(path) : j <= i
    /\ LET ext == SubSeq(path, i + 1, Len(path)) IN
       [k \in DOMAIN ext |-> Lower(ext[k])] \in SupportedExtensions

\* the text before the first "://"
SeparatorAt(path, i) ==
  /\ i + 2 <= Len(path)
  /\ path[i] = ":" /\ path[i + 1] = "/" /\ path[i + 2] = "/"

HasHttpScheme(path) ==
  \E i \in DOMAIN path :
    /\ SeparatorAt(path, i)
    /\ \A j \in 1..(i - 1) : ~SeparatorAt(path, j)
    /\ SubSeq(path, 1, i - 1) \in {<<"h","t","t","p">>, <<"h","t","t","p","s">>}

Offending(d) ==
  \/ d.mode = "file" /\ ~HasSupportedExtension(d.path)
  \/ d.mode = "url" /\ ~HasHttpScheme(d.path)
  \/ d.mode \notin {"file", "url", "confluence"}

Incomplete(d) == d.mode = "confluence" /\ ~(ConfluenceKeys \subseteq d.fields)

\* the loaders a descriptor may be routed to
LoadersFor(d) ==
  IF d.mode = "url" THEN {"WebBaseLoader"}
  ELSE IF d.mode = "confluence" THEN {"ConfluenceLoader"}
  ELSE {"TextLoader", "PyPDFLoader", "CSVLoader", "BSHTMLLoader", "UnstructuredMarkdownLoader",
        "UnstructuredXMLLoader", "JSONLoader", "UnstructuredExcelLoader"}

\* every descriptor got one loader and the documents follow the input order
MergedInOrder(sources, documents) ==
  /\ Len(documents) = Len(sources)
  /\ \A i \in DOMAIN sources :
       /\ documents[i].origin = sources[i]
       /\ documents[i].by \in LoadersFor(sources[i])

(***************************************************************************)
(* C9 as claimed: a list with an offending descriptor fails with           *)
(* Unsupported-Format and yields no document; any other list has each      *)
(* descriptor routed to one loader, the documents merged in input order.   *)
(***************************************************************************)
C9_FailFastUnsupported ==
  load_out # None =>
    LET o == Val(load_out) IN
    IF \E i \in DOMAIN load_in : Offending(load_in[i])
    THEN IsUnsupportedFormat(o.error) /\ o.documents = <<>>
    ELSE /\ ~IsUnsupportedFormat(o.error)
         /\ o.error = "ok" => MergedInOrder(load_in, o.documents)

(***************************************************************************)
(* C9 amended: a list with an offending descriptor fails and yields no     *)
(* document, no loader having been invoked; the failure is                 *)
(* Unsupported-Format unless a confluence descriptor lacking a field       *)
(* precedes the first offending one, and is then that descriptor's missing *)
(* key error.  Any other list is as claimed.                               *)
(***************************************************************************)
C9_FailFastFirstBad ==
  load_out # None =>
    LET o == Val(load_out)
        bad == {i \in DOMAIN load_in : Offending(load_in[i])}
        short == {i \in DOMAIN load_in : Incomplete(load_in[i])}
    IN
    IF bad # {}
    THEN /\ o.documents = <<>>
         /\ o.invoked = 0
         /\ IF \E k \in short : \A i \in bad : k < i
            THEN o.error = "KeyError"
            ELSE IsUnsupportedFormat(o.error)
    ELSE /\ ~IsUnsupportedFormat(o.error)
         /\ o.error = "ok" => MergedInOrder(load_in, o.documents)

\* a supported descriptor came first, an offending one second: Unsupported-Format
C9_Witness ==
  /\ load_out # None
  /\ Len(load_in) = 2
  /\ ~Offending(load_in[1]) /\ ~Incomplete(load_in[1])
  /\ Offending(load_in[2])
  /\ IsUnsupportedFormat(Val(load_out).error)
  /\ Val(load_out).documents = <<>>

(***************************************************************************)
(* C10: add_sources whose loading fails leaves the index, save_path, the   *)
(* stored source list and the memory as they were.                         *)
(***************************************************************************)
C10_FailedAddChangesNothing ==
  [][(lastCall'.op = "add_sources" /\ LoadFailed(lastCall'.result)) =>
       UNCHANGED <<vector_store, disk, data_sources, chat_memory, conversation_chain>>]_vars

\* a loader failed under add_sources on an orchestrator that holds an index
C10_Witness ==
  /\ lastCall.op = "add_sources"
  /\ lastCall.result = "LoaderError"
  /\ vector_store # None
  /\ data_sources # <<>>

(***************************************************************************)
(* C11 as claimed: change_prompt(p) changes neither the index in memory,   *)
(* nor save_path, nor the stored source list; when it returns, the chain   *)
(* holds the template made with p, and a chat called next assembles its    *)
(* prompt with it.                                                         *)
(***************************************************************************)
\* the prompt a chat call made in this state hands to the generation backend
PromptOfChat == Val(conversation_chain).prompt

C11_PromptReplaced ==
  [][/\ lastCall'.op = "change_prompt" => UNCHANGED <<vector_store, disk, data_sources>>
     /\ Returns("change_prompt") =>
          (conversation_chain' # None /\ PromptOfChat' = Template(system_prompt'))
     /\ (Returned("change_prompt") /\ ChatStep /\ lastCall'.result = "ok") =>
          PromptOfChat = Template(system_prompt)]_vars

(***************************************************************************)
(* C11 amended: change_prompt(p) changes neither the index in memory, nor  *)
(* save_path, nor the stored source list; when it returns, a chat called   *)
(* next assembles its prompt with the template made with p if p is not     *)
(* empty, and with the chain's default prompt if p is empty.               *)
(***************************************************************************)
C11_PromptReplacedUnlessEmpty ==
  [][LET Expected(p) == IF p # "" THEN Template(p) ELSE DefaultPrompt IN
     /\ lastCall'.op = "change_prompt" => UNCHANGED <<vector_store, disk, data_sources>>
     /\ Returns("change_prompt") =>
          (conversation_chain' # None /\ PromptOfChat' = Expected(system_prompt'))
     /\ (Returned("change_prompt") /\ ChatStep /\ lastCall'.result = "ok") =>
          PromptOfChat = Expected(system_prompt)]_vars

\* a chat answered with the template of a non-empty prompt set by change_prompt
C11_Witness ==
  /\ lastCall.op = "chat" /\ lastCall.result = "ok"
  /\ system_prompt = "p1"
  /\ PromptOfChat = Template("p1")
  /\ vector_store # None /\ Entries(vector_store) # <<>>

(***************************************************************************)
(* C12: a construction with sources goes through _create_vector_store      *)
(* once, and no other call goes through it; the construction loads what    *)
(* save_path holds when it holds something, and otherwise builds the index *)
(* from the split chunks and saves it.                                     *)
(***************************************************************************)
C12_LoadOrBuildOnlyAtConstruction ==
  [][/\ (Returns("__init__") /\ data_sources' # <<>>) =>
          /\ lastCall'.created = (IF disk # None THEN "load" ELSE "build")
          /\ disk # None =>
               (Entries(vector_store') = Val(disk) /\ disk' = disk)
          /\ disk = None =>
               /\ ChunksIn(Entries(vector_store')) = Derivable(data_sources')
               /\ disk' = Some(Entries(vector_store'))
     /\ lastCall'.op # "__init__" => lastCall'.created = "none"]_vars

(***************************************************************************)
(* C13 as claimed: a list with a confluence descriptor that lacks one of   *)
(* the five fields fails with the missing key error, which is neither      *)
(* Unsupported-Format nor a loader's failure, no loader having been        *)
(* invoked.                                                                *)
(***************************************************************************)
MissingCredential(e) == e = "KeyError" /\ ~IsUnsupportedFormat(e) /\ e # "LoaderError"

C13_MissingCredential ==
  load_out # None =>
    LET o == Val(load_out) IN
    (\E i \in DOMAIN load_in : Incomplete(load_in[i])) =>
      (MissingCredential(o.error) /\ o.invoked = 0 /\ o.documents = <<>>)

(***************************************************************************)
(* C13 amended: a list with a confluence descriptor that lacks one of the  *)
(* five fields fails, no loader having been invoked; the failure is the    *)
(* missing key error unless an offending descriptor precedes the first     *)
(* such confluence descriptor, and is then Unsupported-Format.             *)
(***************************************************************************)
C13_MissingCredentialFirstBad ==
  load_out # None =>
    LET o == Val(load_out)
        bad == {i \in DOMAIN load_in : Offending(load_in[i])}
        short == {i \in DOMAIN load_in : Incomplete(load_in[i])}
    IN
    short # {} =>
      /\ o.invoked = 0
      /\ o.documents = <<>>
      /\ IF \E i \in bad : \A k \in short : i < k
         THEN IsUnsupportedFormat(o.error)
         ELSE MissingCredential(o.error)

\* a supported descriptor came first, a confluence descriptor lacking a field second
C13_Witness ==
  /\ load_out # None
  /\ Len(load_in) = 2
  /\ ~Offending(load_in[1]) /\ ~Incomplete(load_in[1])
  /\ Incomplete(load_in[2]) /\ load_in[2].fields # {}
  /\ Val(load_out).error = "KeyError"
  /\ Val(load_out).invoked = 0

(***************************************************************************)
(* C14: the chunks a chat call returns are entries of the index the        *)
(* orchestrator holds when it is called, never of an index that an earlier *)
(* call replaced.                                                          *)
(***************************************************************************)
C14_ChatSearchesCurrentIndex ==
  [][(ChatStep /\ lastCall'.result = "ok") =>
       /\ vector_store # None
       /\ Range(lastCall'.retrieved) \subseteq Range(Entries(vector_store))]_vars

(***************************************************************************)
(* C15 as claimed: a construction with sources that returns leaves an      *)
(* index whose chunks are those derivable from the stored source list,     *)
(* whatever save_path held before; add_sources, remove_sources and         *)
(* change_retriever, when they return, keep it so.                         *)
(***************************************************************************)
\* the index holds, as a set, the chunks derivable from the stored source list
ConsistentWith(vs, sources) ==
  /\ vs # None
  /\ Range(ChunksIn(Entries(vs))) = Range(Derivable(sources))

Consistent == ConsistentWith(vector_store, data_sources)

IndexCallReturns ==
  Returns("add_sources") \/ Returns("remove_sources") \/ Returns("change_retriever")

C15_IndexMatchesSources ==
  [][/\ (Returns("__init__") /\ data_sources' # <<>>) => ConsistentWith(vector_store', data_sources')
     /\ (IndexCallReturns /\ Consistent) => ConsistentWith(vector_store', data_sources')]_vars

(***************************************************************************)
(* C15 amended: a construction with sources that returns, save_path having *)
(* held nothing, leaves an index whose chunks are those derivable from the *)
(* stored source list; add_sources, remove_sources and change_retriever,   *)
(* when they return, keep it so.                                           *)
(***************************************************************************)
C15_IndexMatchesSourcesWhenBuilt ==
  [][/\ (Returns("__init__") /\ data_sources' # <<>> /\ disk = None) => ConsistentWith(vector_store', data_sources')
     /\ (IndexCallReturns /\ Consistent) => ConsistentWith(vector_store', data_sources')]_vars

\* an index built at construction, extended, and then reloaded by change_retriever
C15_Witness ==
  /\ Returned("change_retriever")
  /\ Range(data_sources) = {SrcA, SrcB}
  /\ data_sources[1] = SrcA
  /\ Consistent

(***************************************************************************)
(* C16: whenever the conversation chain exists, the orchestrator holds an  *)
(* index, and the store the chain's retriever searches is a store that was *)
(* built or loaded: a chat that passes the readiness check never searches  *)
(* an absent index.                                                        *)
(***************************************************************************)
Loaded(vs) == vs # None

C16_ChainImpliesIndex ==
  conversation_chain # None =>
    /\ Loaded(vector_store)
    /\ Val(conversation_chain).live =>
         Val(conversation_chain).store = Val(vector_store)
    /\ Val(conversation_chain).store.entries # <<>>

\* a chat passed the readiness check on an orchestrator built without sources
\* and searched the index that change_retriever loaded
C16_Witness ==
  /\ hist.empty_born
  /\ lastCall.op = "chat" /\ lastCall.result = "ok"
  /\ lastCall.retrieved # <<>>
  /\ Loaded(vector_store)

(***************************************************************************)
(* C17: remove_sources that fails, a loader having failed or no chunk      *)
(* being left to index, leaves the stored source list, the index in memory *)
(* and save_path as they were.                                             *)
(***************************************************************************)
C17_FailedRemoveChangesNothing ==
  [][(lastCall'.op = "remove_sources" /\ lastCall'.result \in {"LoaderError", "IndexError"}) =>
       UNCHANGED <<data_sources, vector_store, disk>>]_vars

====
